---- MODULE Spec2Model ----
(***************************************************************************)
(* Batch OCR orchestration of roql47/Dcas_OCR:                             *)
(*   src/parallel_ocr.py  ParallelOCRProcessor, OCRJobManager              *)
(*   src/backend/main.py  get_ocr_processor, run_batch_ocr, start_batch_ocr*)
(*                                                                         *)
(* Python objects are modelled as records (dicts as functions on their     *)
(* keys), list objects shared by reference live in the heap `lists`, and   *)
(* every thread of the program (the request handler, one background task   *)
(* per job, the workers of its ThreadPoolExecutor) advances by the actions *)
(* below.  Text that the code formats (error messages, activity labels,    *)
(* timestamps) is kept as a short token or tuple naming the format.        *)
(***************************************************************************)
EXTENDS Integers, Sequences, FiniteSets, TLC

\* ---------------------------------------------------------------- bounds
MaxJobs == 2          \* job submissions explored
MaxItems == 2         \* patients per submission
MaxWorkers == 2       \* largest max_workers a request carries
MaxFaults == 1        \* failures (fetch or engine) injected into a server run
MaxCallers == 2       \* threads calling the job manager on their own
MaxIncs == 3          \* increments such callers perform on one job

JobIds == 1..MaxJobs
Langs == {"korean", "en"}
Callers == 1..MaxCallers

VARIABLES
    jobs,              \* OCRJobManager._jobs: job_id -> job dict
    lists,             \* heap of the `results` list objects, by reference
    issued,            \* identifiers uuid4 has returned so far
    engine,            \* main._global_ocr_processor
    pc,                \* position of the background task of each job
    args,              \* arguments run_batch_ocr was scheduled with
    proc,              \* the ParallelOCRProcessor of each run
    fut,               \* futures of the fetch pool of each run
    download_results,  \* process_patients: outcomes in collection order
    loc,               \* process_patients: results, counters, loop index
    cbjob,             \* on_complete: the snapshot get_job returned
    batch_result,      \* what process_patients returned
    files,             \* temporary files that exist on disk
    observed,          \* per run: the snapshots handed to on_progress
    calls,             \* per run: invocations of fetch, engine, on_complete
    faults,            \* failures the environment may still inject
    api,               \* the latest call of the job manager and what it returned
    held,              \* per caller: the job dict get_job handed out
    incs               \* increments of `success` that callers have finished

vars == <<jobs, lists, issued, engine, pc, args, proc, fut, download_results,
          loc, cbjob, batch_result, files, observed, calls, faults,
          api, held, incs>>

\* ------------------------------------------------------------ dict helpers
\* dict.update(**kw): only the supplied keys change, new keys are added
Merge(d, kw) ==
    [k \in DOMAIN d \cup DOMAIN kw |-> IF k \in DOMAIN kw THEN kw[k] ELSE d[k]]

\* dict.get(key, default)
Get(d, key, default) == IF key \in DOMAIN d THEN d[key] ELSE default

None == [none |-> TRUE]

\* ------------------------------------------------------------ OCRJobManager
NewJob(job_id, total) ==
    [id |-> job_id, status |-> "pending", total |-> total, completed |-> 0,
     success |-> 0, failure |-> 0, current |-> <<>>,
     results |-> job_id,            \* reference to a fresh, empty list
     created_at |-> "time", started_at |-> "None", finished_at |-> "None"]

\* a registration that stores nothing
create_job_Lost(reg, job_id, total) == reg

\* lines 440-456
create_job(reg, job_id, total) ==
    [k \in DOMAIN reg \cup {job_id} |->
        IF k = job_id THEN NewJob(job_id, total) ELSE reg[k]]

\* an update that inserts what it was given when the id is unknown
update_job_Upsert(reg, job_id, kw) ==
    [k \in DOMAIN reg \cup {job_id} |->
        IF k # job_id THEN reg[k]
        ELSE IF job_id \in DOMAIN reg THEN Merge(reg[job_id], kw) ELSE kw]

update_job(reg, job_id, kw) ==
    IF job_id \in DOMAIN reg
    THEN [reg EXCEPT ![job_id] = Merge(@, kw)]
    ELSE reg

\* dict.copy() is shallow: the snapshot's `results` is the same list object
get_job(reg, job_id) == IF job_id \in DOMAIN reg THEN reg[job_id] ELSE None

\* a delete that reports the removal and keeps the record
delete_job_Keep(reg, job_id) == reg

\* lines 473-479: the registry once delete_job has returned
delete_job(reg, job_id) == [k \in DOMAIN reg \ {job_id} |-> reg[k]]

\* lines 481-484: a copy of every record
list_jobs(reg) == {reg[k] : k \in DOMAIN reg}

\* ------------------------------------------------------------ initial state
NoArgs == [patients |-> <<>>, max_workers |-> 0, language |-> "korean",
           hooks |-> "registry"]
NoProc == [ocr |-> 0,
           progress |-> [total |-> 0, completed |-> 0, current |-> <<>>,
                         status |-> "idle"],
           callback |-> FALSE]
NoLoc == [results |-> <<>>, success_count |-> 0, failure_count |-> 0,
          i |-> 0, result |-> None]
NoCalls == [fetch |-> 0, engine |-> <<>>, complete |-> 0, hook_errors |-> 0,
            unlinked |-> <<>>]
NoCall == [op |-> "none"]
NoHeld == [job |-> None, seen |-> <<>>]

Start(budget) ==
    /\ faults = budget
    /\ jobs = <<>>
    /\ lists = [j \in JobIds |-> <<>>]
    /\ issued = {}
    /\ engine = [inst |-> 1, lang |-> "korean"]     \* lifespan: warmup_ocr
    /\ pc = [j \in JobIds |-> "none"]
    /\ args = [j \in JobIds |-> NoArgs]
    /\ proc = [j \in JobIds |-> NoProc]
    /\ fut = [j \in JobIds |-> <<>>]
    /\ download_results = [j \in JobIds |-> <<>>]
    /\ loc = [j \in JobIds |-> NoLoc]
    /\ cbjob = [j \in JobIds |-> None]
    /\ batch_result = [j \in JobIds |-> None]
    /\ files = {}
    /\ observed = [j \in JobIds |-> <<>>]
    /\ calls = [j \in JobIds |-> NoCalls]
    /\ api = NoCall
    /\ held = [c \in Callers |-> NoHeld]
    /\ incs = [j \in JobIds |-> 0]

\* the server after startup
Init == Start(MaxFaults)

\* ------------------------------------------------------- request handler
\* a generator of identifiers that repeats itself
uuid4_Repeating(used) == CHOOSE id \in JobIds : \A other \in JobIds : id <= other

\* uuid.uuid4(): an identifier no earlier call has returned
uuid4(used) ==
    CHOOSE id \in JobIds \ used : \A other \in JobIds \ used : id <= other

\* the patients of a request: n distinct work items, named 1..n
PatientList(n) == [k \in 1..n |-> k]

\* start_batch_ocr with a non-empty patient list
Submit(n, w, lang) ==
    /\ Cardinality(issued) < MaxJobs
    /\ n >= 1
    /\ LET job_id == uuid4(issued) IN
        /\ issued' = issued \cup {job_id}
        /\ jobs' = create_job(jobs, job_id, n)
        /\ lists' = [lists EXCEPT ![job_id] = <<>>]
        /\ pc' = [pc EXCEPT ![job_id] = "scheduled"]
        /\ args' = [args EXCEPT ![job_id] =
                       [patients |-> PatientList(n), max_workers |-> w,
                        language |-> lang, hooks |-> "registry"]]
    /\ UNCHANGED <<api, held, incs, engine, proc, fut, download_results, loc, cbjob,
                   batch_result, files, observed, calls, faults>>

\* start_batch_ocr with an empty patient list: rejected, nothing is created
SubmitEmpty ==
    /\ Cardinality(issued) < MaxJobs
    /\ UNCHANGED vars

\* ------------------------------------------------------ get_ocr_processor
get_ocr_processor(e, lang) ==
    IF e.inst = 0 \/ e.lang # lang
    THEN [inst |-> e.inst + 1, lang |-> lang]     \* OCRProcessor(lang=lang)
    ELSE e

\* ------------------------------------------------------------ progress
on_progress(reg, job_id, progress) ==
    update_job(reg, job_id,
               [completed |-> Get(progress, "completed", 0),
                current |-> Get(progress, "current", <<>>)])

\* a copy taken before the update is applied
Notified_BeforeUpdate(old, new) == old

\* lines 143-145: the dict handed to the observer is a copy of _progress
\* taken, under the lock, after the update
Notified(old, new) == new

\* ParallelOCRProcessor._update_progress: the state is updated under the
\* lock, then the observer gets a copy.  The observer is run_batch_ocr's
\* on_progress; one that may raise does so before it has changed anything,
\* and the except of lines 150-151 swallows the exception.
UpdateProgress(j, kw) ==
    LET progress == Merge(proc[j].progress, kw)
        copy == Notified(proc[j].progress, progress)
    IN
    /\ proc' = [proc EXCEPT ![j].progress = progress]
    /\ IF proc[j].callback
       THEN \/ /\ jobs' = on_progress(jobs, j, copy)
               /\ observed' = [observed EXCEPT ![j] = Append(@, copy)]
            \/ /\ args[j].hooks = "raising"
               /\ jobs' = jobs
               /\ observed' = [observed EXCEPT ![j] =
                                 Append(@, Merge(copy, [raised |-> TRUE]))]
       ELSE UNCHANGED <<jobs, observed>>

\* ------------------------------------------------------------ run_batch_ocr
\* a run that records its start time and leaves the status as it was
ProcessingFields_NoStatus == [started_at |-> "time"]

\* lines 587-591: the keyword arguments of the first update_job
ProcessingFields == [status |-> "processing", started_at |-> "time"]

\* lines 587-611: mark the job processing, fetch the shared engine, build
\* the processor and register the progress observer
RunStart(j) ==
    /\ pc[j] = "scheduled"
    /\ jobs' = update_job(jobs, j, ProcessingFields)
    /\ engine' = get_ocr_processor(engine, args[j].language)
    /\ proc' = [proc EXCEPT ![j] =
                   [ocr |-> engine'.inst, progress |-> NoProc.progress,
                    callback |-> TRUE]]
    /\ pc' = [pc EXCEPT ![j] = "process_patients"]
    /\ UNCHANGED <<api, held, incs, lists, issued, args, fut, download_results, loc, cbjob,
                   batch_result, files, observed, calls, faults>>

\* --------------------------------------------------------- _download_image
\* the ways one fetch can end: the return at line 196, the return at line
\* 174, DcasConnectionError, an exception raised before line 191, and an
\* exception raised by image.save (line 192) after the file was created
FetchOutcomes == {"ok", "no_report", "connection_error", "error", "save_error"}

TempFile(j, k) == <<j, k>>          \* the name NamedTemporaryFile picked

CreatesFile(o) == o \in {"ok", "save_error"}

\* a fetch whose failed save still reports the file it created
DownloadResult_KeepsHandle(j, patient, o) ==
    CASE o = "ok" ->
           [patient |-> patient, success |-> TRUE,
            temp_file |-> TempFile(j, patient), report_url |-> "url"]
      [] o = "save_error" ->
           [patient |-> patient, success |-> FALSE, error |-> "download_error",
            temp_file |-> TempFile(j, patient)]
      [] o = "no_report" ->
           [patient |-> patient, success |-> FALSE, error |-> "no_report_image"]
      [] o = "connection_error" ->
           [patient |-> patient, success |-> FALSE,
            error |-> "dcas_connection_error"]
      [] OTHER ->
           [patient |-> patient, success |-> FALSE, error |-> "download_error"]

\* the dict _download_image returns
DownloadResult(j, patient, o) ==
    CASE o = "ok" ->
           [patient |-> patient, success |-> TRUE,
            temp_file |-> TempFile(j, patient), report_url |-> "url"]
      [] o = "no_report" ->
           [patient |-> patient, success |-> FALSE, error |-> "no_report_image"]
      [] o = "connection_error" ->
           [patient |-> patient, success |-> FALSE,
            error |-> "dcas_connection_error"]
      [] OTHER ->
           [patient |-> patient, success |-> FALSE, error |-> "download_error"]

\* ------------------------------------------------------------- _perform_ocr
EngineOutcomes == {"ok", "OCRError", "Exception"}

OCRTaskResult(patient, success, text, image_url, error, processing_time) ==
    [patient |-> patient, success |-> success, text |-> text,
     image_url |-> image_url, error |-> error,
     processing_time |-> processing_time]

\* OCRTaskResult.to_dict (lines 34-46)
to_dict(r) ==
    [patient_id |-> r.patient, success |-> r.success, text |-> r.text,
     image_url |-> r.image_url, error |-> r.error,
     processing_time |-> r.processing_time]

\* the failure result built without the error of the fetch
FetchFailedResult_NoError(d) == OCRTaskResult(d.patient, FALSE, "", "", "", 0)

\* lines 236-241: the fetch failed, the engine is not called
FetchFailedResult(d) ==
    OCRTaskResult(d.patient, FALSE, "", "", Get(d, "error", "download_failed"), 0)

\* lines 252-290: what _perform_ocr returns once process_file has ended;
\* a measured processing time is written 1
EngineResult(d, o) ==
    IF o = "ok"
    THEN OCRTaskResult(d.patient, TRUE, "text", Get(d, "report_url", ""), "", 1)
    ELSE OCRTaskResult(d.patient, FALSE, "", "", "ocr_error", 1)

\* a finally block that deletes nothing
Cleanup_Skipped(fs, d) == fs

\* lines 291-297: the finally block
Cleanup(fs, d) ==
    IF "temp_file" \in DOMAIN d /\ d.temp_file \in fs
    THEN fs \ {d.temp_file}
    ELSE fs

\* lines 293-295: the calls of os.unlink, in order
Unlinked(log, fs, d) ==
    IF "temp_file" \in DOMAIN d /\ d.temp_file \in fs
    THEN Append(log, d.temp_file)
    ELSE log

\* the engine a processor calls (property ocr_processor, lines 121-130);
\* a processor built without one creates its own, written -j
ocr_processor(j) == IF proc[j].ocr = 0 THEN 0 - j ELSE proc[j].ocr

\* ---------------------------------------------------------- process_patients
BatchOCRResult(total, success_count, failure_count, results) ==
    [total |-> total, success_count |-> success_count,
     failure_count |-> failure_count, results |-> results]

Running(j) == {k \in DOMAIN fut[j] : fut[j][k].st = "running"}
Queued(j) == {k \in DOMAIN fut[j] : fut[j][k].st = "queued"}

\* process_patients without its early return
NoPatients_Never(patients) == FALSE

\* line 316: `if not patients`
NoPatients(patients) == Len(patients) = 0

\* a first update that leaves the status as it was
FirstProgress_NoStatus(n) ==
    [total |-> n, completed |-> 0, current |-> <<"downloading">>]

\* lines 326-331: the keyword arguments of the first progress update
FirstProgress(n) ==
    [total |-> n, completed |-> 0, current |-> <<"downloading">>,
     status |-> "processing"]

\* lines 316-346: the empty case, the first progress update, and the start
\* of the pool, which raises ValueError when max_workers < 1
ProcessPatients(j) ==
    /\ pc[j] = "process_patients"
    /\ IF NoPatients(args[j].patients)
       THEN /\ batch_result' = [batch_result EXCEPT ![j] =
                                   BatchOCRResult(0, 0, 0, <<>>)]
            /\ pc' = [pc EXCEPT ![j] = "returned"]
            /\ UNCHANGED <<jobs, proc, observed, fut>>
       ELSE /\ UpdateProgress(j, FirstProgress(Len(args[j].patients)))
            /\ IF args[j].max_workers < 1
               THEN /\ pc' = [pc EXCEPT ![j] = "raised"]
                    /\ UNCHANGED fut
               ELSE /\ pc' = [pc EXCEPT ![j] = "phase1"]
                    /\ fut' = [fut EXCEPT ![j] =
                                 [k \in DOMAIN args[j].patients |->
                                    [st |-> "queued", res |-> None]]]
            /\ UNCHANGED batch_result
    /\ UNCHANGED <<api, held, incs, lists, issued, engine, args, download_results, loc, cbjob,
                   files, calls, faults>>

\* a pool that starts a thread for every submitted call
CanStartFetch_Unbounded(j) == TRUE

\* a pool worker takes the oldest queued call of _download_image
CanStartFetch(j) == Cardinality(Running(j)) < args[j].max_workers

FetchStart(j) ==
    /\ pc[j] = "phase1"
    /\ Queued(j) # {}
    /\ CanStartFetch(j)
    /\ LET k == CHOOSE q \in Queued(j) : \A o \in Queued(j) : q <= o IN
       fut' = [fut EXCEPT ![j][k].st = "running"]
    /\ calls' = [calls EXCEPT ![j].fetch = @ + 1]
    /\ UNCHANGED <<api, held, incs, jobs, lists, issued, engine, pc, args, proc,
                   download_results, loc, cbjob, batch_result, files, observed, faults>>

\* a fetch of the first item that blocks on the network without a timeout
FetchReturns_NoTimeout(j, k) == k # 1

\* line 182 and dcas_client.py line 353: every network call of a fetch is
\* made with timeout=30, so the call of _download_image comes to an end
FetchReturns(j, k) == TRUE

\* _download_image returns
FetchFinish(j, k, o) ==
    /\ pc[j] = "phase1"
    /\ k \in Running(j)
    /\ FetchReturns(j, k)
    /\ fut' = [fut EXCEPT ![j][k] =
                 [st |-> "done",
                  res |-> DownloadResult(j, args[j].patients[k], o)]]
    /\ files' = IF CreatesFile(o) THEN files \cup {TempFile(j, k)} ELSE files
    /\ o = "ok" \/ faults > 0
    /\ faults' = IF o = "ok" THEN faults ELSE faults - 1
    /\ UNCHANGED <<api, held, incs, jobs, lists, issued, engine, pc, args, proc,
                   download_results, loc, cbjob, batch_result, observed, calls>>

\* an update that counts a collected fetch as a completed item
CollectedProgress_Counting(got, n) ==
    [current |-> <<"downloaded", got, n>>, completed |-> got]

\* lines 351-353: the keyword arguments of the update after each outcome
CollectedProgress(got, n) == [current |-> <<"downloaded", got, n>>]

\* lines 348-353: as_completed yields a finished future.  Futures that had
\* finished before the iteration began come out in set order, the others as
\* they finish: any finished future not yet yielded may be the next one.
Collect(j, k) ==
    /\ pc[j] = "phase1"
    /\ k \in DOMAIN fut[j]
    /\ fut[j][k].st = "done"
    /\ fut' = [fut EXCEPT ![j][k].st = "collected"]
    /\ download_results' = [download_results EXCEPT ![j] =
                              Append(@, fut[j][k].res)]
    /\ UpdateProgress(j, CollectedProgress(Len(download_results[j]) + 1,
                                            Len(args[j].patients)))
    /\ UNCHANGED <<api, held, incs, lists, issued, engine, pc, args, loc, cbjob, batch_result,
                   files, calls, faults>>

\* a loop that moves on as soon as one outcome has arrived
Phase1Done_AnyCollected(j) == \E k \in DOMAIN fut[j] : fut[j][k].st = "collected"

\* lines 348-353: as_completed is exhausted and the `with` block has waited
\* for the pool to shut down
Phase1Done(j) == \A k \in DOMAIN fut[j] : fut[j][k].st = "collected"

\* lines 354-358: the pool has shut down, phase 2 begins
Phase2Begin(j) ==
    /\ pc[j] = "phase1"
    /\ Phase1Done(j)
    /\ UpdateProgress(j, [current |-> <<"ocr">>])
    /\ pc' = [pc EXCEPT ![j] =
                IF Len(download_results[j]) > 0 THEN "perform" ELSE "finish"]
    /\ UNCHANGED <<api, held, incs, lists, issued, engine, args, fut, download_results, loc,
                   cbjob, batch_result, files, calls, faults>>

\* phase 2 walking the outcomes in the order of the input list
Current_BySubmission(j) ==
    CHOOSE d \in {download_results[j][r] : r \in DOMAIN download_results[j]} :
        d.patient = args[j].patients[loc[j].i + 1]

\* ------------------------------------------------------------------ phase 2
Current(j) == download_results[j][loc[j].i + 1]

\* _perform_ocr up to the call of process_file (lines 230-249); a failed
\* fetch returns at once, and the finally block finds no temp_file
PerformBegin(j) ==
    /\ pc[j] = "perform"
    /\ IF ~Current(j).success
       THEN /\ loc' = [loc EXCEPT ![j].result = FetchFailedResult(Current(j))]
            /\ files' = Cleanup(files, Current(j))
            /\ calls' = [calls EXCEPT ![j].unlinked =
                           Unlinked(@, files, Current(j))]
            /\ pc' = [pc EXCEPT ![j] = "record"]
            /\ UNCHANGED <<jobs, proc, observed>>
       ELSE /\ UpdateProgress(j, [current |-> <<"ocr_item", Current(j).patient>>])
            /\ calls' = [calls EXCEPT ![j].engine =
                           Append(@, [inst |-> ocr_processor(j),
                                      patient |-> Current(j).patient,
                                      file |-> Current(j).temp_file,
                                      outcome |-> "running"])]
            /\ pc' = [pc EXCEPT ![j] = "engine"]
            /\ UNCHANGED <<loc, files>>
    /\ UNCHANGED <<api, held, incs, lists, issued, engine, args, fut, download_results, cbjob,
                   batch_result, faults>>

\* an engine error sends the item through _perform_ocr again
AfterEngine_Retry(o) == IF o = "ok" THEN "record" ELSE "perform"

\* lines 251-290: process_file is called once; its return and both except
\* branches return a result to the loop of process_patients
AfterEngine(o) == "record"

\* process_file returns or raises; _perform_ocr returns (lines 251-297)
EngineEnd(j, o) ==
    /\ pc[j] = "engine"
    /\ loc' = [loc EXCEPT ![j].result = EngineResult(Current(j), o)]
    /\ files' = Cleanup(files, Current(j))
    /\ pc' = [pc EXCEPT ![j] = AfterEngine(o)]
    /\ calls' = [calls EXCEPT
                   ![j].engine[Len(calls[j].engine)].outcome = o,
                   ![j].unlinked = Unlinked(@, files, Current(j))]
    /\ o = "ok" \/ faults > 0
    /\ faults' = IF o = "ok" THEN faults ELSE faults - 1
    /\ UNCHANGED <<api, held, incs, jobs, lists, issued, engine, args, proc, fut,
                   download_results, cbjob, batch_result, observed>>

\* a counter that misses the failures
CountFailure_Skipped(count, result) == count

\* a counter that takes every item for a success
CountSuccess_Always(count, result) == count + 1

\* lines 364-367
CountSuccess(count, result) == IF result.success THEN count + 1 ELSE count

CountFailure(count, result) == IF result.success THEN count ELSE count + 1

\* the loop index reported as the number of items done
CompletedAt_Index(i) == i

\* line 370: completed=i + 1, with i the index enumerate yields
CompletedAt(i) == i + 1

\* lines 362-372
Record(j) ==
    /\ pc[j] = "record"
    /\ loc' = [loc EXCEPT
                 ![j].results = Append(@, loc[j].result),
                 ![j].success_count = CountSuccess(@, loc[j].result),
                 ![j].failure_count = CountFailure(@, loc[j].result)]
    /\ UpdateProgress(j, [completed |-> CompletedAt(loc[j].i),
                          current |-> <<"ocr_done", loc[j].result.patient>>])
    /\ pc' = [pc EXCEPT ![j] = "on_complete"]
    /\ UNCHANGED <<api, held, incs, lists, issued, engine, args, fut, download_results, cbjob,
                   batch_result, files, calls, faults>>

\* a loop that gives up at the first failed item
NextItem_StopOnFailure(j) ==
    IF loc[j].i + 1 < Len(download_results[j]) /\ loc[j].result.success
    THEN "perform"
    ELSE "finish"

\* the loop of lines 360-378 moves to the next outcome, or ends
NextItem(j) ==
    IF loc[j].i + 1 < Len(download_results[j]) THEN "perform" ELSE "finish"

\* on_complete, line 614: job = job_manager.get_job(job_id)
OnCompleteGet(j) ==
    /\ pc[j] = "on_complete"
    /\ calls' = [calls EXCEPT ![j].complete = @ + 1]
    /\ cbjob' = [cbjob EXCEPT ![j] = get_job(jobs, j)]
    /\ IF get_job(jobs, j) = None
       THEN /\ pc' = [pc EXCEPT ![j] = NextItem(j)]
            /\ loc' = [loc EXCEPT ![j].i = @ + 1, ![j].result = None]
       ELSE /\ pc' = [pc EXCEPT ![j] = "append"]
            /\ UNCHANGED loc
    /\ UNCHANGED <<api, held, incs, jobs, lists, issued, engine, args, proc, fut,
                   download_results, batch_result, files, observed, faults>>

\* a loop without the try/except around on_complete: the exception leaves
\* process_patients
AfterCallbackError_Propagates(j) == "raised"

\* lines 377-378: the exception is logged and the loop goes on
AfterCallbackError(j) == NextItem(j)

\* lines 374-378 with a completion callback that raises
OnCompleteRaise(j) ==
    /\ pc[j] = "on_complete"
    /\ args[j].hooks = "raising"
    /\ calls' = [calls EXCEPT ![j].complete = @ + 1, ![j].hook_errors = @ + 1]
    /\ pc' = [pc EXCEPT ![j] = AfterCallbackError(j)]
    /\ loc' = [loc EXCEPT ![j].i = @ + 1, ![j].result = None]
    /\ UNCHANGED <<api, held, incs, jobs, lists, issued, engine, args, proc,
                   fut, download_results, cbjob, batch_result, files, observed,
                   faults>>

\* an on_complete that puts the newest result first
ListAppend_Prepend(list, result) == <<to_dict(result)>> \o list

\* on_complete without the append
ListAppend_Dropped(list, result) == list

\* line 617: results.append(result.to_dict())
ListAppend(list, result) == Append(list, to_dict(result))

\* on_complete, lines 616-617: the list of the snapshot is the job's list
OnCompleteAppend(j) ==
    /\ pc[j] = "append"
    /\ lists' = [lists EXCEPT ![cbjob[j].results] = ListAppend(@, loc[j].result)]
    /\ pc' = [pc EXCEPT ![j] = "update"]
    /\ UNCHANGED <<api, held, incs, jobs, issued, engine, args, proc, fut, download_results,
                   loc, cbjob, batch_result, files, observed, calls, faults>>

\* on_complete, lines 618-629
OnCompleteUpdate(j) ==
    /\ pc[j] = "update"
    /\ jobs' = IF loc[j].result.success
               THEN update_job(jobs, j, [results |-> cbjob[j].results,
                                         success |-> cbjob[j].success + 1])
               ELSE update_job(jobs, j, [results |-> cbjob[j].results,
                                         failure |-> cbjob[j].failure + 1])
    /\ pc' = [pc EXCEPT ![j] = NextItem(j)]
    /\ loc' = [loc EXCEPT ![j].i = @ + 1, ![j].result = None]
    /\ cbjob' = [cbjob EXCEPT ![j] = None]
    /\ UNCHANGED <<api, held, incs, lists, issued, engine, args, proc, fut, download_results,
                   batch_result, files, observed, calls, faults>>

\* lines 380-401
Finish(j) ==
    /\ pc[j] = "finish"
    /\ UpdateProgress(j, [status |-> "completed", current |-> <<>>])
    /\ batch_result' = [batch_result EXCEPT ![j] =
                          BatchOCRResult(Len(args[j].patients),
                                         loc[j].success_count,
                                         loc[j].failure_count,
                                         loc[j].results)]
    /\ pc' = [pc EXCEPT ![j] = "returned"]
    /\ UNCHANGED <<api, held, incs, lists, issued, engine, args, fut, download_results, loc,
                   cbjob, files, calls, faults>>

\* run_batch_ocr, lines 633-640
RunEnd(j) ==
    /\ pc[j] = "returned"
    /\ jobs' = update_job(jobs, j,
                 [status |-> "completed", finished_at |-> "time",
                  completed |-> batch_result[j].total,
                  success |-> batch_result[j].success_count,
                  failure |-> batch_result[j].failure_count])
    /\ pc' = [pc EXCEPT ![j] = "done"]
    /\ UNCHANGED <<api, held, incs, lists, issued, engine, args, proc, fut, download_results,
                   loc, cbjob, batch_result, files, observed, calls, faults>>

\* an except branch that drops the message
FailedFields_NoError(e) == [status |-> "failed", finished_at |-> "time"]

\* lines 643-648: the keyword arguments of the update_job of the except
\* branch, error=str(e)
FailedFields(e) == [status |-> "failed", finished_at |-> "time", error |-> e]

\* run_batch_ocr, lines 642-648; the exception is the ValueError of
\* ThreadPoolExecutor(max_workers < 1)
RunFail(j) ==
    /\ pc[j] = "raised"
    /\ jobs' = update_job(jobs, j, FailedFields("ValueError"))
    /\ pc' = [pc EXCEPT ![j] = "done"]
    /\ UNCHANGED <<api, held, incs, lists, issued, engine, args, proc, fut, download_results,
                   loc, cbjob, batch_result, files, observed, calls, faults>>

\* ------------------------------------------------------------ specification
Task(j) ==
    \/ RunStart(j)
    \/ ProcessPatients(j)
    \/ FetchStart(j)
    \/ \E k \in 1..MaxItems, o \in FetchOutcomes : FetchFinish(j, k, o)
    \/ \E k \in 1..MaxItems : Collect(j, k)
    \/ Phase2Begin(j)
    \/ PerformBegin(j)
    \/ \E o \in EngineOutcomes : EngineEnd(j, o)
    \/ Record(j)
    \/ OnCompleteGet(j)
    \/ OnCompleteAppend(j)
    \/ OnCompleteUpdate(j)
    \/ Finish(j)
    \/ RunEnd(j)
    \/ RunFail(j)

Next ==
    \/ \E n \in 1..MaxItems, w \in 0..MaxWorkers, lang \in Langs :
          Submit(n, w, lang)
    \/ SubmitEmpty
    \/ \E j \in JobIds : Task(j)

Spec == Init /\ [][Next]_vars

\* One run of run_batch_ocr called directly on a job the caller registered,
\* with any patient list (the empty one included) and any item failing.
DirectRun(n, w, lang) ==
    /\ issued = {}
    /\ LET job_id == uuid4(issued) IN
        /\ issued' = issued \cup {job_id}
        /\ jobs' = create_job(jobs, job_id, n)
        /\ lists' = [lists EXCEPT ![job_id] = <<>>]
        /\ pc' = [pc EXCEPT ![job_id] = "scheduled"]
        /\ args' = [args EXCEPT ![job_id] =
                       [patients |-> PatientList(n), max_workers |-> w,
                        language |-> lang, hooks |-> "registry"]]
    /\ UNCHANGED <<api, held, incs, engine, proc, fut, download_results, loc, cbjob,
                   batch_result, files, observed, calls, faults>>

InitRun == Start(MaxItems)

NextRun ==
    \/ \E n \in 0..MaxItems, w \in 0..MaxWorkers, lang \in Langs :
          DirectRun(n, w, lang)
    \/ \E j \in JobIds : Task(j)

SpecRun == InitRun /\ [][NextRun]_vars

\* The same run with its threads scheduled fairly: the background task and
\* the pool workers are threads that run whenever they can take a step.
SpecRunFair == SpecRun /\ \A j \in JobIds : WF_vars(Task(j))

\* One run whose progress observer and completion callback may raise.
HookedRun(n, w, lang) ==
    /\ issued = {}
    /\ LET job_id == uuid4(issued) IN
        /\ issued' = issued \cup {job_id}
        /\ jobs' = create_job(jobs, job_id, n)
        /\ lists' = [lists EXCEPT ![job_id] = <<>>]
        /\ pc' = [pc EXCEPT ![job_id] = "scheduled"]
        /\ args' = [args EXCEPT ![job_id] =
                       [patients |-> PatientList(n), max_workers |-> w,
                        language |-> lang, hooks |-> "raising"]]
    /\ UNCHANGED <<api, held, incs, engine, proc, fut, download_results, loc,
                   cbjob, batch_result, files, observed, calls, faults>>

NextHooked ==
    \/ \E n \in 0..MaxItems, w \in 0..MaxWorkers, lang \in Langs :
          HookedRun(n, w, lang)
    \/ \E j \in JobIds : Task(j)
    \/ \E j \in JobIds : OnCompleteRaise(j)

SpecHooked == Init /\ [][NextHooked]_vars

\* One run whose processor is asked for its progress by another thread,
\* which then writes into the dict it got.
get_progress(j) == proc[j].progress       \* lines 136-139: a copy; flat values

GetProgress(c, j) ==
    /\ pc[j] \notin {"none", "scheduled"}
    /\ held' = [held EXCEPT ![c] = [job |-> get_progress(j), seen |-> <<>>]]
    /\ UNCHANGED <<api, incs, jobs, lists, issued, engine, pc, args, proc, fut,
                   download_results, loc, cbjob, batch_result, files, observed,
                   calls, faults>>

Scribble(c) ==
    /\ held[c] # NoHeld
    /\ held[c].job.status # "scribbled"
    /\ held' = [held EXCEPT ![c].job =
                   Merge(@, [status |-> "scribbled", completed |-> @.total + 1])]
    /\ UNCHANGED <<api, incs, jobs, lists, issued, engine, pc, args, proc, fut,
                   download_results, loc, cbjob, batch_result, files, observed,
                   calls, faults>>

NextWatch ==
    \/ \E n \in 0..MaxItems, w \in 0..MaxWorkers, lang \in Langs :
          DirectRun(n, w, lang)
    \/ \E j \in JobIds : Task(j)
    \/ \E j \in JobIds : GetProgress(1, j)
    \/ Scribble(1)

SpecWatch == Init /\ [][NextWatch]_vars

\* ------------------------------------------------- the job manager by itself
\* OCRJobManager called directly, with any identifier, by any caller
Call(op, id, kw, ret) == [op |-> op, id |-> id, kw |-> kw, ret |-> ret]

\* the keyword arguments update_job is called with in run_batch_ocr
UpdateKws ==
    {[status |-> "processing", started_at |-> "time"],
     [completed |-> 1, current |-> <<"ocr_done", 1>>],
     [status |-> "failed", finished_at |-> "time", error |-> "ValueError"]}

MgrCreate(id, total) ==
    /\ jobs' = create_job(jobs, id, total)
    /\ lists' = [lists EXCEPT ![id] = <<>>]
    /\ api' = Call("create_job", id, [total |-> total], get_job(jobs', id))
    /\ UNCHANGED <<issued, engine, pc, args, proc, fut, download_results, loc,
                   cbjob, batch_result, files, observed, calls, faults, held,
                   incs>>

MgrUpdate(id, kw) ==
    /\ jobs' = update_job(jobs, id, kw)
    /\ api' = Call("update_job", id, kw, get_job(jobs', id))
    /\ UNCHANGED <<lists, issued, engine, pc, args, proc, fut,
                   download_results, loc, cbjob, batch_result, files, observed,
                   calls, faults, held, incs>>

MgrGet(id) ==
    /\ api' = Call("get_job", id, <<>>, get_job(jobs, id))
    /\ UNCHANGED <<jobs, lists, issued, engine, pc, args, proc, fut,
                   download_results, loc, cbjob, batch_result, files, observed,
                   calls, faults, held, incs>>

MgrDelete(id) ==
    /\ jobs' = delete_job(jobs, id)
    /\ api' = Call("delete_job", id, <<>>, id \in DOMAIN jobs)
    /\ UNCHANGED <<lists, issued, engine, pc, args, proc, fut,
                   download_results, loc, cbjob, batch_result, files, observed,
                   calls, faults, held, incs>>

MgrList ==
    /\ api' = Call("list_jobs", 0, <<>>, list_jobs(jobs))
    /\ UNCHANGED <<jobs, lists, issued, engine, pc, args, proc, fut,
                   download_results, loc, cbjob, batch_result, files, observed,
                   calls, faults, held, incs>>

InitMgr == Start(0)

NextMgr ==
    \/ \E id \in JobIds, total \in 1..MaxItems : MgrCreate(id, total)
    \/ \E id \in JobIds, kw \in UpdateKws : MgrUpdate(id, kw)
    \/ \E id \in JobIds : MgrGet(id)
    \/ \E id \in JobIds : MgrDelete(id)
    \/ MgrList

SpecMgr == InitMgr /\ [][NextMgr]_vars

\* --------------------------------------------- callers incrementing a counter
\* The manager has no increment: a caller adds one to `success` the way
\* on_complete does (main.py lines 614-623), with get_job and then update_job.
Snapshot(reg, id) ==
    [job |-> get_job(reg, id),
     seen |-> IF id \in DOMAIN reg THEN lists[reg[id].results] ELSE <<>>]

Register(id, total) ==
    /\ id \notin DOMAIN jobs
    /\ MgrCreate(id, total)

IncRead(c, id) ==
    /\ held[c] = NoHeld
    /\ id \in DOMAIN jobs
    /\ incs[id] + Cardinality({d \in Callers : held[d].job # None}) < MaxIncs
    /\ held' = [held EXCEPT ![c] = Snapshot(jobs, id)]
    /\ api' = Call("get_job", id, <<>>, get_job(jobs, id))
    /\ UNCHANGED <<jobs, lists, issued, engine, pc, args, proc, fut,
                   download_results, loc, cbjob, batch_result, files, observed,
                   calls, faults, incs>>

IncWrite(c) ==
    /\ held[c] # NoHeld
    /\ LET id == held[c].job.id
           kw == [success |-> held[c].job.success + 1]
       IN /\ jobs' = update_job(jobs, id, kw)
          /\ api' = Call("update_job", id, kw, get_job(jobs', id))
          /\ incs' = [incs EXCEPT ![id] = @ + 1]
    /\ held' = [held EXCEPT ![c] = NoHeld]
    /\ UNCHANGED <<lists, issued, engine, pc, args, proc, fut,
                   download_results, loc, cbjob, batch_result, files, observed,
                   calls, faults>>

NextInc ==
    \/ \E id \in JobIds, total \in 1..MaxItems : Register(id, total)
    \/ \E c \in Callers, id \in JobIds : IncRead(c, id)
    \/ \E c \in Callers : IncWrite(c)

SpecInc == InitMgr /\ [][NextInc]_vars

\* ------------------------------------------------------ a client that polls
\* get_ocr_status (main.py lines 707-721) runs on the event loop while the
\* background task of the job runs on a pool thread: it may call get_job
\* between any two steps of the run, and holds the dict it got.
Poll(c, id) ==
    /\ held' = [held EXCEPT ![c] = Snapshot(jobs, id)]
    /\ api' = Call("get_job", id, <<>>, get_job(jobs, id))
    /\ UNCHANGED <<jobs, lists, issued, engine, pc, args, proc, fut,
                   download_results, loc, cbjob, batch_result, files, observed,
                   calls, faults, incs>>

NextPoll ==
    \/ \E n \in 0..MaxItems, w \in 0..MaxWorkers, lang \in Langs :
          DirectRun(n, w, lang)
    \/ \E j \in JobIds : Task(j)
    \/ \E id \in JobIds : Poll(1, id)

SpecPoll == Init /\ [][NextPoll]_vars

\* ------------------------------------------- a job deleted under its batch
\* delete_job is a public method of the global job_manager: any thread may
\* call it, at any moment, while the background task of that job runs.
NextDelete ==
    \/ \E n \in 0..MaxItems, w \in 0..MaxWorkers, lang \in Langs :
          DirectRun(n, w, lang)
    \/ \E j \in JobIds : Task(j)
    \/ \E id \in JobIds : MgrDelete(id)

SpecDelete == InitRun /\ [][NextDelete]_vars

\* ------------------------------------------- the responses of the handler
\* a handler that takes every request, the empty one too
RequestRejected_Never(patients) == FALSE

\* line 664: if not request.patients
RequestRejected(patients) == Len(patients) = 0

\* BatchOCRResponse (lines 162-166); the message is written as the number of
\* patients it tells
BatchOCRResponse(success, job_id, message, error) ==
    [success |-> success, job_id |-> job_id, message |-> message,
     error |-> error]

\* start_batch_ocr as its client sees it: the request and the response of
\* the last call are kept in api.  A job_id of 0 is the empty string.
StartBatchOcr(n, w, lang) ==
    LET patients == PatientList(n)
        request == [patients |-> patients, max_workers |-> w,
                    language |-> lang]
    IN
    IF RequestRejected(patients)
    THEN /\ api' = Call("start_batch_ocr", 0, request,
                        BatchOCRResponse(FALSE, 0, 0, "no_patients"))
         /\ UNCHANGED <<jobs, lists, issued, engine, pc, args, proc, fut,
                        download_results, loc, cbjob, batch_result, files,
                        observed, calls, faults, held, incs>>
    ELSE /\ Cardinality(issued) < MaxJobs
         /\ LET job_id == uuid4(issued) IN
              /\ issued' = issued \cup {job_id}
              /\ jobs' = create_job(jobs, job_id, Len(patients))
              /\ lists' = [lists EXCEPT ![job_id] = <<>>]
              /\ pc' = [pc EXCEPT ![job_id] = "scheduled"]
              /\ args' = [args EXCEPT ![job_id] =
                             [patients |-> patients, max_workers |-> w,
                              language |-> lang, hooks |-> "registry"]]
              /\ api' = Call("start_batch_ocr", job_id, request,
                             BatchOCRResponse(TRUE, job_id, Len(patients), ""))
         /\ UNCHANGED <<engine, proc, fut, download_results, loc, cbjob,
                        batch_result, files, observed, calls, faults, held,
                        incs>>

NextSubmit ==
    \/ \E n \in 0..MaxItems, w \in 0..MaxWorkers, lang \in Langs :
          StartBatchOcr(n, w, lang)
    \/ \E j \in JobIds : Task(j)

SpecSubmit == InitMgr /\ [][NextSubmit]_vars

\* ================================================================== claims
Range(seq) == {seq[r] : r \in DOMAIN seq}
PatientsOf(seq) == [r \in DOMAIN seq |-> seq[r].patient]
Returned(j) == batch_result[j] # None
InEngine(j) == pc[j] = "engine"
FilesOf(j) == {f \in files : f[1] = j}
Raised(j) == {c \in Range(calls[j].engine) : c.outcome \in {"OCRError", "Exception"}}
FailedFetches(j) ==
    {fut[j][k].res : k \in {q \in DOMAIN fut[j] :
                              /\ fut[j][q].st \in {"done", "collected"}
                              /\ ~fut[j][q].res.success}}
\* the item results of a run, the one being recorded included
ResultsSoFar(j) ==
    Range(loc[j].results) \cup (IF loc[j].result = None THEN {} ELSE {loc[j].result})

\* C1: no two calls of process_file on the same engine instance are in
\* progress at the same time, whatever batches run concurrently.
C1_EngineMutualExclusion ==
    \A a, b \in JobIds :
        (a # b /\ InEngine(a) /\ InEngine(b))
            => ocr_processor(a) # ocr_processor(b)

\* C2: once process_patients has returned, or the job is completed or
\* failed, no temporary file created by _download_image for that batch exists.
C2_NoTempFileLeft ==
    \A j \in JobIds :
        (\/ pc[j] \in {"returned", "done"}
         \/ (j \in DOMAIN jobs /\ jobs[j].status \in {"completed", "failed"}))
            => FilesOf(j) = {}

\* C3: the BatchOCRResult process_patients returns satisfies
\* success_count + failure_count = total = len(results) = number of items.
C3_BatchCounts ==
    \A j \in JobIds :
        Returned(j) =>
            /\ batch_result[j].success_count + batch_result[j].failure_count
                  = batch_result[j].total
            /\ batch_result[j].total = Len(batch_result[j].results)
            /\ batch_result[j].total = Len(args[j].patients)

C3_Witness ==
    \E j \in JobIds :
        /\ Returned(j)
        /\ batch_result[j].success_count >= 1
        /\ batch_result[j].failure_count >= 1

\* C4: a job record with status completed satisfies
\* success + failure = total = len(results).
C4_CompletedJobCounts ==
    \A id \in DOMAIN jobs :
        jobs[id].status = "completed" =>
            /\ jobs[id].success + jobs[id].failure = jobs[id].total
            /\ jobs[id].total = Len(lists[jobs[id].results])

C4_Witness ==
    \E id \in DOMAIN jobs :
        /\ jobs[id].status = "completed"
        /\ jobs[id].success >= 1
        /\ jobs[id].failure >= 1

\* C5: an item whose fetch failed never reaches the engine, and the batch
\* result holds exactly one entry for it: success false, the fetch error
\* copied and non-empty, empty text, processing time 0.
C5_FetchFailure ==
    \A j \in JobIds : \A d \in FailedFetches(j) :
        /\ \A c \in Range(calls[j].engine) : c.patient # d.patient
        /\ Returned(j) =>
             LET rows == {r \in DOMAIN batch_result[j].results :
                            batch_result[j].results[r].patient = d.patient}
             IN /\ Cardinality(rows) = 1
                /\ \A r \in rows :
                     LET res == batch_result[j].results[r] IN
                     /\ ~res.success
                     /\ res.error = d.error
                     /\ res.error # ""
                     /\ res.text = ""
                     /\ res.processing_time = 0

C5_Witness ==
    \E j \in JobIds :
        /\ Returned(j)
        /\ FailedFetches(j) # {}
        /\ batch_result[j].success_count >= 1

\* C6: when the engine raises on an item, _perform_ocr returns a result with
\* success false and a non-empty error (nothing is raised out of the run),
\* and the batch goes on to yield one result for every item.
C6_EngineErrorIsolated ==
    \A j \in JobIds :
        /\ \A c \in Raised(j) :
             /\ pc[j] # "raised"
             /\ \E res \in ResultsSoFar(j) : res.patient = c.patient
             /\ \A res \in ResultsSoFar(j) :
                  res.patient = c.patient => (~res.success /\ res.error # "")
        /\ (Returned(j) /\ Raised(j) # {}) =>
             /\ Len(batch_result[j].results) = Len(args[j].patients)
             /\ Range(PatientsOf(batch_result[j].results)) = Range(args[j].patients)

C6_Witness ==
    \E j \in JobIds :
        /\ Returned(j)
        /\ Len(calls[j].engine) >= 2
        /\ calls[j].engine[1].outcome # "ok"
        /\ calls[j].engine[2].outcome = "ok"

\* C7: the results are in the order in which the fetch outcomes were
\* collected, whatever that order is.
C7_CollectionOrder ==
    \A j \in JobIds :
        /\ \A r \in DOMAIN loc[j].results :
             loc[j].results[r].patient = download_results[j][r].patient
        /\ Returned(j) =>
             PatientsOf(batch_result[j].results) = PatientsOf(download_results[j])

C7_Witness ==
    \E j \in JobIds :
        /\ Returned(j)
        /\ Len(batch_result[j].results) = 2
        /\ PatientsOf(batch_result[j].results) # args[j].patients

\* C8: with worker count W >= 1, at most W calls of _download_image are in
\* progress at any instant.
C8_BoundedFetches ==
    \A j \in JobIds :
        args[j].max_workers >= 1 => Cardinality(Running(j)) <= args[j].max_workers

C8_Witness ==
    \E j \in JobIds :
        /\ args[j].max_workers >= 1
        /\ Cardinality(Running(j)) = args[j].max_workers
        /\ Queued(j) # {}

\* C9: process_patients on an empty list returns all-zero counts and empty
\* results, calls neither the fetch nor the engine, leaves ProgressState as
\* it was and invokes no callback.
C9_EmptyBatch ==
    \A j \in JobIds :
        (Len(args[j].patients) = 0 /\ pc[j] \notin {"none", "scheduled", "process_patients"}) =>
            /\ Returned(j)
            /\ batch_result[j] = BatchOCRResult(0, 0, 0, <<>>)
            /\ calls[j] = NoCalls
            /\ proc[j].progress = NoProc.progress
            /\ observed[j] = <<>>

C9_Witness ==
    \E j \in JobIds : Len(args[j].patients) = 0 /\ pc[j] = "returned"

\* C10: every submission registers exactly one new record, under an
\* identifier not used before, with status pending, completed 0 and empty
\* results, and leaves every record already in the registry as it was.
Scheduling == \E j \in JobIds : pc[j] # "scheduled" /\ pc'[j] = "scheduled"
Created == DOMAIN jobs' \ DOMAIN jobs

C10_CreateJob ==
    [][Scheduling =>
         /\ Cardinality(Created) = 1
         /\ \A id \in Created :
              /\ id \notin issued
              /\ jobs'[id].id = id
              /\ jobs'[id].status = "pending"
              /\ jobs'[id].completed = 0
              /\ lists'[jobs'[id].results] = <<>>
         /\ \A id \in DOMAIN jobs :
              /\ id \in DOMAIN jobs'
              /\ jobs'[id] = jobs[id]
              /\ lists'[jobs'[id].results] = lists[jobs[id].results]]_vars

C10_Witness ==
    /\ Cardinality(DOMAIN jobs) = 2
    /\ \E a, b \in DOMAIN jobs :
          /\ jobs[a].status = "pending"
          /\ jobs[b].status = "processing"
          /\ Len(lists[jobs[b].results]) >= 1

\* C11: update_job on an existing id changes exactly the supplied fields
\* and leaves the other fields and the other jobs as they were; on an unknown
\* id it returns None, creates no record and leaves the registry unchanged.
C11_UpdateJob ==
    [][api'.op = "update_job" =>
         LET id == api'.id
             kw == api'.kw
         IN IF id \in DOMAIN jobs
            THEN /\ DOMAIN jobs' = DOMAIN jobs
                 /\ \A other \in DOMAIN jobs \ {id} : jobs'[other] = jobs[other]
                 /\ DOMAIN jobs'[id] = DOMAIN jobs[id] \cup DOMAIN kw
                 /\ \A k \in DOMAIN kw : jobs'[id][k] = kw[k]
                 /\ \A k \in DOMAIN jobs[id] \ DOMAIN kw :
                      jobs'[id][k] = jobs[id][k]
                 /\ api'.ret = jobs'[id]
                 /\ lists' = lists
            ELSE /\ api'.ret = None
                 /\ jobs' = jobs
                 /\ lists' = lists]_vars

C11_Witness ==
    /\ api.op = "update_job"
    /\ api.id \in DOMAIN jobs
    /\ api.kw = [completed |-> 1, current |-> <<"ocr_done", 1>>]
    /\ jobs[api.id].status = "failed"
    /\ DOMAIN jobs # {api.id}

\* C14: delete_job removes a present id and returns true, after which
\* get_job reports not-found for it; on an absent id (a second delete
\* included) it returns false and leaves the registry unchanged.
C14_DeleteJob ==
    [][api'.op = "delete_job" =>
         LET id == api'.id IN
         IF id \in DOMAIN jobs
         THEN /\ api'.ret = TRUE
              /\ DOMAIN jobs' = DOMAIN jobs \ {id}
              /\ \A other \in DOMAIN jobs' : jobs'[other] = jobs[other]
              /\ get_job(jobs', id) = None
         ELSE /\ api'.ret = FALSE
              /\ jobs' = jobs]_vars

C14_Witness ==
    /\ api.op = "delete_job"
    /\ api.ret = TRUE
    /\ api.id \notin DOMAIN jobs
    /\ DOMAIN jobs # {}

\* C12: when callers concurrently each increment a counter of the same job
\* through the job manager, no increment is lost: once every caller has
\* finished, the counter equals its initial value (0) plus the number of
\* increments performed.
C12_NoLostUpdate ==
    \A id \in DOMAIN jobs :
        (\A c \in Callers : held[c].job = None \/ held[c].job.id # id)
            => jobs[id].success = incs[id]

\* C13: the dict a caller got from the job manager is isolated from the
\* registry: what the caller reads through it, the results list included,
\* stays what it was when the dict was handed out, whatever is recorded in
\* the job afterwards.
C13_SnapshotIsolated ==
    \A c \in Callers :
        held[c].job # None => lists[held[c].job.results] = held[c].seen

\* C18: every dict a poller gets from get_job while the batch runs is
\* consistent: success + failure equals the length of results.
C18_ConsistentSnapshot ==
    \A c \in Callers :
        held[c].job # None =>
            held[c].job.success + held[c].job.failure = Len(held[c].seen)

\* the progress updates of a run in which completed equals total
Full(j) == {r \in DOMAIN observed[j] :
              observed[j][r].completed = observed[j][r].total}
Monotone(j) ==
    \A r \in DOMAIN observed[j] :
        r > 1 => observed[j][r - 1].completed <= observed[j][r].completed

\* C15 as stated: over one batch run `completed` never decreases, and
\* `completed` equals `total` in exactly one progress update, the terminal
\* one (the update that sets the terminal status).
C15_CompletedEqualsTotalOnce ==
    \A j \in JobIds :
        /\ Monotone(j)
        /\ \A r \in Full(j) : observed[j][r].status = "completed"
        /\ (Returned(j) /\ Len(args[j].patients) >= 1) => Cardinality(Full(j)) = 1

\* C15, amended: over one batch run `completed` never decreases; it reaches
\* `total` in the update that records the last item, whose status is still
\* "processing", and the terminal update that follows sets status
\* "completed" with `completed` still equal to `total`: exactly these two
\* updates, the last two, show completed = total.
C15_CompletedReachesTotal ==
    \A j \in JobIds :
        LET last == Len(observed[j]) IN
        /\ Monotone(j)
        /\ (Returned(j) /\ Len(args[j].patients) >= 1) =>
              /\ Full(j) = {last - 1, last}
              /\ observed[j][last - 1].status = "processing"
              /\ observed[j][last].status = "completed"
        /\ ~Returned(j) =>
              /\ Full(j) \subseteq {last}
              /\ \A r \in Full(j) : observed[j][r].status = "processing"

C15_Witness ==
    \E j \in JobIds :
        /\ Returned(j)
        /\ Len(args[j].patients) = 2
        /\ Cardinality(Full(j)) = 2

\* C16: the status of a job follows pending -> processing -> (completed |
\* failed): a record starts pending, becomes processing only from pending,
\* completed or failed only from processing, and a terminal status is never
\* changed again by the run.
C16_StatusLifecycle ==
    [][\A id \in DOMAIN jobs' :
         IF id \notin DOMAIN jobs
         THEN jobs'[id].status = "pending"
         ELSE LET a == jobs[id].status
                  b == jobs'[id].status
              IN a # b =>
                   \/ a = "pending" /\ b = "processing"
                   \/ a = "processing" /\ b \in {"completed", "failed"}]_vars

C16_Witness ==
    \E j \in JobIds :
        /\ pc[j] = "done"
        /\ jobs[j].status = "completed"
        /\ Len(lists[jobs[j].results]) = 2

\* C17: when a batch-level fatal error occurs (the worker count is below 1),
\* the job ends failed with a top-level, non-empty error message, and every
\* item result recorded before the fatal point is still in the job.
C17_FatalError ==
    [][\A j \in JobIds :
         (pc[j] = "raised" /\ pc'[j] = "done") =>
             /\ jobs'[j].status = "failed"
             /\ "error" \in DOMAIN jobs'[j]
             /\ jobs'[j].error # ""
             /\ jobs'[j].results = jobs[j].results
             /\ lists'[jobs'[j].results] = lists[jobs[j].results]]_vars

C17_Witness ==
    \E j \in JobIds :
        /\ pc[j] = "done"
        /\ args[j].max_workers < 1
        /\ jobs[j].status = "failed"
        /\ jobs[j].error = "ValueError"

\* C19: an exception raised by the completion callback or by the progress
\* observer never aborts the batch: nothing is raised out of
\* process_patients, every remaining item is processed, and the result
\* returned has one entry for every item.
HookErrors(j) ==
    calls[j].hook_errors
        + Cardinality({r \in DOMAIN observed[j] : "raised" \in DOMAIN observed[j][r]})

C19_CallbackErrorsIsolated ==
    \A j \in JobIds :
        /\ pc[j] = "raised" => args[j].max_workers < 1
        /\ (pc[j] = "done" /\ args[j].max_workers >= 1) => Returned(j)
        /\ Returned(j) =>
              /\ Len(batch_result[j].results) = Len(args[j].patients)
              /\ PatientsOf(batch_result[j].results) = PatientsOf(download_results[j])
              /\ Range(PatientsOf(batch_result[j].results)) = Range(args[j].patients)

C19_Witness ==
    \E j \in JobIds :
        /\ Returned(j)
        /\ Len(batch_result[j].results) = 2
        /\ calls[j].hook_errors >= 1
        /\ HookErrors(j) > calls[j].hook_errors

\* C20: start_batch_ocr registers the job, pending, before the background
\* task is handed over, and returns the id without waiting for the run: an
\* id it returned is never reported not-found by get_job (no job is
\* deleted), a run exists only for a registered id, and while the run has
\* not made its first step the job is as create_job left it.
C20_AsyncSubmission ==
    \A j \in JobIds :
        /\ j \in issued => get_job(jobs, j) # None
        /\ pc[j] # "none" => (j \in issued /\ j \in DOMAIN jobs)
        /\ pc[j] = "scheduled" =>
              /\ jobs[j] = NewJob(j, Len(args[j].patients))
              /\ lists[jobs[j].results] = <<>>
              /\ proc[j] = NoProc
              /\ observed[j] = <<>>

C20_Witness ==
    \E a, b \in JobIds :
        /\ pc[a] = "scheduled"
        /\ get_job(jobs, a).status = "pending"
        /\ pc[b] = "engine"

\* the positions of a run inside phase 2
Phase2 == {"perform", "engine", "record", "on_complete", "append", "update",
           "finish"}
Status(j) == proc[j].progress.status

\* C21 as stated: the ProgressState status follows Idle -> Downloading ->
\* Processing -> Completed: it is Downloading from initialization until
\* every fetch outcome has been collected, Processing only after that,
\* Completed only after the last item result, and Failed when the fetch
\* pool cannot start.
C21_StatusPhases ==
    \A j \in JobIds :
        /\ pc[j] = "phase1" => Status(j) = "downloading"
        /\ pc[j] \in Phase2 => Status(j) = "processing"
        /\ Status(j) = "completed" => Returned(j)
        /\ pc[j] = "raised" => Status(j) = "failed"

\* C21, amended: the ProgressState status follows idle -> processing ->
\* completed and takes no other value: it becomes processing at the first
\* update, before any fetch starts, stays processing through both phases,
\* and becomes completed only after the last item result; when the fetch
\* pool cannot start it stays processing, and on an empty list it stays idle.
C21_StatusIdleProcessingCompleted ==
    \A j \in JobIds :
        /\ pc[j] \in {"none", "scheduled", "process_patients"} => Status(j) = "idle"
        /\ pc[j] \in {"phase1", "raised"} \cup Phase2 => Status(j) = "processing"
        /\ Returned(j) =>
              Status(j) = IF Len(args[j].patients) = 0 THEN "idle" ELSE "completed"
        /\ (pc[j] = "done" /\ ~Returned(j)) => Status(j) = "processing"

C21_Witness ==
    \E j \in JobIds :
        /\ pc[j] = "phase1"
        /\ Running(j) # {}
        /\ Len(download_results[j]) = 1
        /\ Status(j) = "processing"

\* C22: during phase 1 the arrival of a fetch outcome changes only the
\* current-activity label: total and status are unchanged, and `completed`
\* stays 0, in ProgressState and in the job record, until the first item
\* result of phase 2.
C22_FetchArrivalFrame ==
    [][\A j \in JobIds :
         /\ Len(download_results'[j]) > Len(download_results[j]) =>
               /\ proc'[j].progress.total = proc[j].progress.total
               /\ proc'[j].progress.status = proc[j].progress.status
               /\ proc'[j].progress.completed = 0
               /\ proc'[j].progress.current # proc[j].progress.current
               /\ \A k \in DOMAIN jobs[j] \ {"current"} : jobs'[j][k] = jobs[j][k]
               /\ jobs'[j].current = proc'[j].progress.current
         /\ (pc'[j] # "none" /\ loc'[j].results = <<>>) =>
               /\ proc'[j].progress.completed = 0
               /\ jobs'[j].completed = 0]_vars

C22_Witness ==
    \E j \in JobIds :
        /\ pc[j] = "phase1"
        /\ Len(download_results[j]) = 2
        /\ jobs[j].current = <<"downloaded", 2, 2>>
        /\ jobs[j].completed = 0

\* the fetch outcomes that exist so far, by position in the input list
Outcomes(j) == {k \in DOMAIN fut[j] : fut[j][k].st \in {"done", "collected"}}
AfterPhase1(j) == pc[j] \in Phase2 \cup {"returned"} \/ (pc[j] = "done" /\ Returned(j))

\* C23: the fetch pool produces exactly one outcome per input item and no
\* fetch error is raised out of it: every failed fetch is an outcome with
\* success false and a non-empty error text, and an outcome with success
\* false carries no staged-file handle.
C23_FetchOutcomes ==
    \A j \in JobIds :
        /\ pc[j] = "raised" => args[j].max_workers < 1
        /\ \A k \in Outcomes(j) :
             LET d == fut[j][k].res IN
             /\ d.patient = args[j].patients[k]
             /\ d.success => "temp_file" \in DOMAIN d
             /\ ~d.success =>
                   /\ "temp_file" \notin DOMAIN d
                   /\ "error" \in DOMAIN d
                   /\ d.error # ""
        /\ (AfterPhase1(j) /\ Len(args[j].patients) >= 1) =>
             /\ Len(download_results[j]) = Len(args[j].patients)
             /\ \A k \in DOMAIN args[j].patients :
                  Cardinality({r \in DOMAIN download_results[j] :
                                 download_results[j][r] = fut[j][k].res}) = 1

C23_Witness ==
    \E j \in JobIds :
        /\ pc[j] = "perform"
        /\ loc[j].i = 0
        /\ \E a, b \in DOMAIN download_results[j] :
              /\ download_results[j][a].success
              /\ ~download_results[j][b].success
              /\ download_results[j][b].error = "download_error"
              /\ FilesOf(j) = {TempFile(j, 1), TempFile(j, 2)}

\* C24: phase 2 starts only after phase 1 has finished: no call of
\* _perform_ocr, and hence of the engine, happens before every item of the
\* batch has produced its fetch outcome and all fetch workers have stopped.
C24_PhaseOrder ==
    \A j \in JobIds :
        (\/ pc[j] \in Phase2
         \/ calls[j].engine # <<>>
         \/ loc[j].results # <<>>
         \/ loc[j].result # None) =>
            /\ DOMAIN fut[j] = DOMAIN args[j].patients
            /\ \A k \in DOMAIN fut[j] : fut[j][k].st = "collected"
            /\ Running(j) = {} /\ Queued(j) = {}
            /\ Len(download_results[j]) = Len(args[j].patients)
            /\ calls[j].fetch = Len(args[j].patients)

C24_Witness ==
    \E j \in JobIds :
        /\ pc[j] = "engine"
        /\ Len(args[j].patients) = 2
        /\ args[j].max_workers = 1
        /\ loc[j].i = 0

\* the items of a run for which _perform_ocr has returned
Performed(j) == Len(loc[j].results) + (IF pc[j] = "record" THEN 1 ELSE 0)
\* the staged files carried by the first m outcomes, in collection order
Staged(j, m) ==
    LET carrying == SelectSeq(SubSeq(download_results[j], 1, m),
                              LAMBDA d : "temp_file" \in DOMAIN d)
    IN [r \in DOMAIN carrying |-> carrying[r].temp_file]

Delivered(j) == lists[jobs[j].results]

\* C26: in phase 2, for each outcome in collection order, the item result
\* is appended, the success/failure count updated and `completed`
\* incremented before the completion callback is invoked with that result;
\* the callback is invoked exactly once per item, in results order, before
\* the processing of the next item begins.
C26_CallbackOrder ==
    \A j \in JobIds :
        /\ pc[j] = "on_complete" =>
              /\ Len(loc[j].results) = loc[j].i + 1
              /\ loc[j].results[loc[j].i + 1] = loc[j].result
              /\ loc[j].success_count + loc[j].failure_count = loc[j].i + 1
              /\ proc[j].progress.completed = loc[j].i + 1
              /\ calls[j].complete = loc[j].i
        /\ pc[j] \in {"append", "update"} => calls[j].complete = loc[j].i + 1
        /\ pc[j] \in {"perform", "engine", "record"} =>
              /\ calls[j].complete = loc[j].i
              /\ Len(loc[j].results) = loc[j].i
        /\ pc[j] \in Phase2 \cup {"returned"} =>
              /\ Len(Delivered(j))
                    = calls[j].complete - (IF pc[j] = "append" THEN 1 ELSE 0)
              /\ \A r \in DOMAIN Delivered(j) :
                    Delivered(j)[r] = to_dict(loc[j].results[r])
        /\ Returned(j) => calls[j].complete = Len(args[j].patients)

C26_Witness ==
    \E j \in JobIds :
        /\ pc[j] = "on_complete"
        /\ loc[j].i = 1
        /\ ~loc[j].result.success
        /\ Len(Delivered(j)) = 1

\* C27: every mutation of ProgressState through _update_progress leads to
\* exactly one invocation of the registered observer, with a copy that
\* shows that mutation, in the order of the mutations; and a dict returned
\* by get_progress is a copy: writing into it does not change ProgressState.
C27_ObserverPerMutation ==
    [][\A j \in JobIds :
         /\ (proc'[j].progress # proc[j].progress \/ observed'[j] # observed[j]) =>
               observed'[j] = Append(observed[j], proc'[j].progress)
         /\ \A c \in Callers :
               held'[c] # held[c] =>
                 /\ proc' = proc
                 /\ held[c] = NoHeld => held'[c].job = proc[j].progress
                                         \/ pc[j] \in {"none", "scheduled"}]_vars

C27_Witness ==
    \E j \in JobIds :
        /\ Len(observed[j]) >= 3
        /\ held[1] # NoHeld
        /\ held[1].job.status = "scribbled"
        /\ held[1].job.total = 2
        /\ Status(j) = "completed"

\* a batch that has been submitted and has not ended
Alive(j) == pc[j] \notin {"none", "done"}

\* C28: all batches running in the process use one and the same engine
\* instance: whatever the submissions, their languages and the
\* interleaving, every engine call of a batch goes to the same instance as
\* every engine call of every other batch alive at the same time.
C28_OneEngine ==
    \A a, b \in JobIds :
        (Alive(a) /\ Alive(b)) =>
            \A ca \in Range(calls[a].engine), cb \in Range(calls[b].engine) :
                ca.inst = cb.inst

\* C29: every submitted job eventually reaches status completed or failed:
\* every fetch ends (at the latest by its timeout, as a failed outcome) and
\* every engine call returns or raises, so no item keeps the batch in
\* phase 1 or phase 2 forever.
C29_JobTerminates ==
    \A j \in JobIds :
        (pc[j] = "scheduled")
            ~> (j \in DOMAIN jobs /\ jobs[j].status \in {"completed", "failed"})

C29_Witness ==
    \E j \in JobIds :
        /\ pc[j] = "done"
        /\ jobs[j].status = "completed"
        /\ \E a, b \in DOMAIN download_results[j] :
              /\ ~download_results[j][a].success
              /\ download_results[j][a].error = "dcas_connection_error"
              /\ download_results[j][b].success

Deleted(j) == j \in issued /\ j \notin DOMAIN jobs

\* a run that raises nothing but the pool's ValueError, ends with one result
\* per item and has unlinked every staged file its outcomes carried
RunUnharmed(j) ==
    /\ pc[j] = "raised" => args[j].max_workers < 1
    /\ (pc[j] \in {"returned", "done"}
          /\ (args[j].max_workers >= 1 \/ Len(args[j].patients) = 0)) =>
          /\ Returned(j)
          /\ Len(batch_result[j].results) = Len(args[j].patients)
          /\ calls[j].unlinked = Staged(j, Len(args[j].patients))
          /\ \A r \in DOMAIN calls[j].unlinked : calls[j].unlinked[r] \notin files

IsPrefix(s, t) == Len(s) <= Len(t) /\ \A r \in DOMAIN s : s[r] = t[r]

\* a results sequence as BatchOCRResult.to_dict shows it
Dicts(results) == [r \in DOMAIN results |-> to_dict(results[r])]

\* C31: while a job's batch runs, the job's results sequence only grows by
\* appending; at every moment it is a prefix (same items, same order) of
\* the results of the BatchOCRResult the run finally returns, and the job's
\* success and failure counters never decrease.
C31_ResultsGrowByAppending ==
    [][\A j \in DOMAIN jobs :
         /\ j \in DOMAIN jobs'
         /\ jobs'[j].results = jobs[j].results
         /\ IsPrefix(Delivered(j), Delivered(j)')
         /\ Len(Delivered(j)') <= Len(Delivered(j)) + 1
         /\ IsPrefix(Delivered(j)', Dicts(loc'[j].results))
         /\ IsPrefix(loc[j].results, loc'[j].results)
         /\ Returned(j)' => batch_result'[j].results = loc'[j].results
         /\ jobs'[j].success >= jobs[j].success
         /\ jobs'[j].failure >= jobs[j].failure]_vars

C31_Witness ==
    \E j \in DOMAIN jobs :
        /\ pc[j] = "done"
        /\ Len(Delivered(j)) = 2
        /\ Delivered(j)[1].patient_id # Delivered(j)[2].patient_id
        /\ jobs[j].success = 1
        /\ jobs[j].failure = 1

\* the patients of the successful ones among the first m fetch outcomes, in
\* collection order
Fetched(j, m) ==
    LET ok == SelectSeq(SubSeq(download_results[j], 1, m),
                        LAMBDA d : d.success)
    IN [r \in DOMAIN ok |-> ok[r].patient]

\* C32: within one batch the recognition engine is invoked exactly once for
\* each item whose fetch succeeded, so the engine invocations of a batch
\* are as many as the fetch outcomes with success=true; an engine error on
\* an item is not retried.
C32_EngineOncePerFetched ==
    \A j \in JobIds :
        /\ [r \in DOMAIN calls[j].engine |-> calls[j].engine[r].patient]
              = Fetched(j, Performed(j) + (IF InEngine(j) THEN 1 ELSE 0))
        /\ \A r, q \in DOMAIN calls[j].engine :
              calls[j].engine[r].patient = calls[j].engine[q].patient => r = q
        /\ Returned(j) =>
              Len(calls[j].engine)
                 = Cardinality({k \in DOMAIN download_results[j] :
                                   download_results[j][k].success})

C32_Witness ==
    \E j \in JobIds :
        /\ Returned(j)
        /\ Len(download_results[j]) = 2
        /\ ~download_results[j][1].success
        /\ download_results[j][2].success
        /\ Len(calls[j].engine) = 1
        /\ calls[j].engine[1].outcome = "OCRError"

\* the step is a call of start_batch_ocr with an empty patient list
EmptySubmission ==
    /\ api' # api
    /\ api'.op = "start_batch_ocr"
    /\ Len(api'.kw.patients) = 0

\* C33: a submission through start_batch_ocr with an empty patient list is
\* rejected with success=false: it creates no job record, schedules no
\* background run and leaves the job registry unchanged.
C33_EmptySubmissionRejected ==
    [][EmptySubmission =>
         /\ api'.ret.success = FALSE
         /\ api'.ret.job_id = 0
         /\ jobs' = jobs
         /\ lists' = lists
         /\ issued' = issued
         /\ pc' = pc
         /\ args' = args]_vars

C33_Witness ==
    /\ api.op = "start_batch_ocr"
    /\ Len(api.kw.patients) = 0
    /\ ~api.ret.success
    /\ \E j \in DOMAIN jobs : pc[j] \in Phase2 /\ jobs[j].status = "processing"

====
